---- MODULE Spec2Model ----
(***************************************************************************)
(* A model of custom_components/ndbcrealtime/client.py: the NDBC client    *)
(* (get_data, get_json, compass_direction) and the Stations registry.      *)
(*                                                                         *)
(* Python strings are modelled as sequences of one-character strings, so   *)
(* that slicing, strip(), split("\n"), int() and float() are computed.     *)
(* A Python float is the exact rational num/den (den = 0: nan when         *)
(* num = 0, +inf/-inf when num = 1/-1); every token that fits a feed       *)
(* column converts exactly with respect to the comparisons made here.      *)
(* None is the record [none |-> TRUE]; an int n is [int |-> n].            *)
(***************************************************************************)
EXTENDS Integers, Sequences, FiniteSets, TLC

VARIABLES
  station_id,        \* NDBC._station_id
  session,           \* NDBC._session: [owner: "core" | "caller", closed: BOOLEAN]
  pc,                \* where the caller / the running get_data coroutine stands
  calls,             \* get_data calls started so far
  registry_fetches,  \* GET requests sent to STATION_URL so far
  stations_session,  \* Stations._session of the running call: "none" | "open" | "closed"
  stations_list,     \* the dict returned by Stations.list(), or None
  outstanding,       \* the requests in flight
  issued,            \* the requests the running call has issued, in order
  response,          \* the observation response read by get_json, or None
  data,              \* the rows get_json returned, or None
  result,            \* how the call ended: a returned value or a raised exception
  degrees,           \* compass_direction's argument, in hundredths of a degree
  compass            \* compass_direction's result

vars ==
  << station_id, session, pc, calls, registry_fetches, stations_session,
     stations_list, outstanding, issued, response, data, result, degrees, compass >>

(*************************** bounds of the model ***************************)

\* get_data calls one client object makes
MaxCalls == 2

\* the largest bearing tried, in hundredths of a degree (above 360.00)
MaxDegrees == 36100

\* length of the enumerated response texts given to get_json
MaxTextLen == 6

(**************************** values and outcomes **************************)

None == [none |-> TRUE]

PyInt(n) == [int |-> n]

NaN == [num |-> 0, den |-> 0]

Infinity(sign) == [num |-> sign, den |-> 0]

Return(v) == [kind |-> "return", value |-> v]

Raise(e, m) == [kind |-> "raise", exc |-> e, msg |-> m]

Pending == [kind |-> "pending"]

(********************************* strings *********************************)

Whitespace == {" ", "\t", "\r", "\n"}

Digit == {"0", "1", "2", "3", "4", "5", "6", "7", "8", "9"}

DigitValue(c) ==
  CASE c = "0" -> 0 [] c = "1" -> 1 [] c = "2" -> 2 [] c = "3" -> 3 [] c = "4" -> 4
    [] c = "5" -> 5 [] c = "6" -> 6 [] c = "7" -> 7 [] c = "8" -> 8 [] c = "9" -> 9

DigitChar(n) == <<"0", "1", "2", "3", "4", "5", "6", "7", "8", "9">>[n + 1]

RECURSIVE lstrip(_)
lstrip(s) == IF s # <<>> /\ Head(s) \in Whitespace THEN lstrip(Tail(s)) ELSE s

RECURSIVE rstrip(_)
rstrip(s) ==
  IF s # <<>> /\ s[Len(s)] \in Whitespace THEN rstrip(SubSeq(s, 1, Len(s) - 1)) ELSE s

\* str.strip()
strip(s) == rstrip(lstrip(s))

\* s[lo:hi] for 0 <= lo <= hi: short strings give a shorter or empty slice
Slice(s, lo, hi) == SubSeq(s, lo + 1, IF hi < Len(s) THEN hi ELSE Len(s))

\* str.split("\n"): the text up to the first newline, then the split of the rest
RECURSIVE split(_)
split(s) ==
  LET newlines == {i \in DOMAIN s : s[i] = "\n"}
      first    == CHOOSE i \in newlines : \A j \in newlines : i <= j
  IN  IF newlines = {} THEN <<s>>
      ELSE <<SubSeq(s, 1, first - 1)>> \o split(SubSeq(s, first + 1, Len(s)))

RECURSIVE Pow10(_)
Pow10(n) == IF n = 0 THEN 1 ELSE 10 * Pow10(n - 1)

RECURSIVE DigitsValue(_)
DigitsValue(s) ==
  IF s = <<>> THEN 0
  ELSE 10 * DigitsValue(SubSeq(s, 1, Len(s) - 1)) + DigitValue(s[Len(s)])

IsDigits(s) == s # <<>> /\ \A i \in DOMAIN s : s[i] \in Digit

Unsigned(s) == IF s # <<>> /\ Head(s) \in {"+", "-"} THEN Tail(s) ELSE s

SignOf(s) == IF s # <<>> /\ Head(s) = "-" THEN -1 ELSE 1

(***************************************************************************)
(* int(str) on a stripped token: an optional sign and decimal digits;      *)
(* anything else raises ValueError.                                        *)
(***************************************************************************)
py_int(tok) ==
  IF IsDigits(Unsigned(tok))
    THEN Return(SignOf(tok) * DigitsValue(Unsigned(tok)))
    ELSE Raise("ValueError", "invalid literal for int()")

(***************************************************************************)
(* float(str) on a stripped token: an optional sign, then "nan", "inf" or  *)
(* digits with at most one point and a digit on one side of it; anything   *)
(* else raises ValueError.                                                 *)
(***************************************************************************)
py_float(tok) ==
  LET body == Unsigned(tok)
      dots == {i \in DOMAIN body : body[i] = "."}
      p    == CHOOSE i \in dots : TRUE
      ip   == SubSeq(body, 1, p - 1)
      fp   == SubSeq(body, p + 1, Len(body))
      ok(d) == \A i \in DOMAIN d : d[i] \in Digit
  IN  IF body = <<"n", "a", "n">> THEN Return(NaN)
      ELSE IF body = <<"i", "n", "f">> THEN Return(Infinity(SignOf(tok)))
      ELSE IF dots = {} /\ IsDigits(body)
        THEN Return([num |-> SignOf(tok) * DigitsValue(body), den |-> 1])
      ELSE IF Cardinality(dots) = 1 /\ ok(ip) /\ ok(fp) /\ Len(ip) + Len(fp) > 0
        THEN Return([num |-> SignOf(tok) * (DigitsValue(ip) * Pow10(Len(fp)) + DigitsValue(fp)),
                     den |-> Pow10(Len(fp))])
      ELSE Raise("ValueError", "could not convert string to float")

(***************************************************************************)
(* int(round(x)): round half to even; nan raises ValueError and an         *)
(* infinity OverflowError.                                                 *)
(***************************************************************************)
py_round(x) ==
  LET q == x.num \div x.den
      r == x.num % x.den
  IN  IF x.den = 0
        THEN IF x.num = 0 THEN Raise("ValueError", "cannot convert float NaN to integer")
             ELSE Raise("OverflowError", "cannot convert float infinity to integer")
      ELSE IF 2 * r < x.den THEN Return(q)
      ELSE IF 2 * r > x.den THEN Return(q + 1)
      ELSE IF q % 2 = 0 THEN Return(q)
      ELSE Return(q + 1)

\* x > h/100 and x <= h/100 on floats: every comparison with nan is false
Gt(x, h) == IF x.den = 0 THEN x.num > 0 ELSE x.num * 100 > h * x.den

Le(x, h) == IF x.den = 0 THEN x.num < 0 ELSE x.num * 100 <= h * x.den

(******************************* NDBC.compass_direction ********************)

\* the test with the lower bound included: degrees >= lower and degrees <= upper
InBucketClosedBelow(d, lower, upper) ==
  d.den # 0 /\ d.num * 100 >= lower * d.den /\ Le(d, upper)

\* the test with the upper bound excluded: degrees > lower and degrees < upper
InBucketOpenAbove(d, lower, upper) ==
  d.den # 0 /\ Gt(d, lower) /\ d.num * 100 < upper * d.den

\* one test of the chain: degrees > lower and degrees <= upper
InBucket(d, lower, upper) == Gt(d, lower) /\ Le(d, upper)

compass_direction(d) ==
  IF InBucket(d, 1125, 3375) THEN "NNE"
  ELSE IF InBucket(d, 3375, 5625) THEN "NE"
  ELSE IF InBucket(d, 5625, 7875) THEN "ENE"
  ELSE IF InBucket(d, 7875, 10125) THEN "E"
  ELSE IF InBucket(d, 10125, 12375) THEN "ESE"
  ELSE IF InBucket(d, 12375, 14625) THEN "SE"
  ELSE IF InBucket(d, 14625, 16875) THEN "SSE"
  ELSE IF InBucket(d, 16875, 19125) THEN "S"
  ELSE IF InBucket(d, 19125, 21375) THEN "SSW"
  ELSE IF InBucket(d, 21375, 23625) THEN "SW"
  ELSE IF InBucket(d, 23625, 25875) THEN "WSW"
  ELSE IF InBucket(d, 25875, 28125) THEN "W"
  ELSE IF InBucket(d, 28125, 30375) THEN "WNW"
  ELSE IF InBucket(d, 30375, 32625) THEN "NW"
  ELSE IF InBucket(d, 32625, 34875) THEN "NNW"
  ELSE "N"

(********************************* NDBC.get_json ***************************)

Keys ==
  << "YY", "MM", "DD", "hh", "mm", "WDIR", "WSPD", "GST", "WVHT", "DPD", "APD",
     "MWD", "PRES", "ATMP", "WTMP", "DEWP", "VIS", "PTDY", "TIDE" >>

KeySet == {Keys[i] : i \in DOMAIN Keys}

col_specification ==
  ("YY" :> <<0, 4>>) @@ ("MM" :> <<5, 7>>) @@ ("DD" :> <<8, 10>>) @@
  ("hh" :> <<11, 13>>) @@ ("mm" :> <<14, 16>>) @@ ("WDIR" :> <<17, 21>>) @@
  ("WSPD" :> <<22, 26>>) @@ ("GST" :> <<27, 31>>) @@ ("WVHT" :> <<32, 38>>) @@
  ("DPD" :> <<39, 44>>) @@ ("APD" :> <<45, 48>>) @@ ("MWD" :> <<49, 52>>) @@
  ("PRES" :> <<53, 60>>) @@ ("ATMP" :> <<61, 66>>) @@ ("WTMP" :> <<67, 72>>) @@
  ("DEWP" :> <<73, 78>>) @@ ("VIS" :> <<79, 82>>) @@ ("PTDY" :> <<83, 88>>) @@
  ("TIDE" :> <<89, 93>>)

\* the test dropping every comment line: line[0:1] == "#"
IsSkippedComment(line) == Slice(line, 0, 1) = <<"#">>

\* the loop's test: line[0:3] == "#YY"
IsSkipped(line) == Slice(line, 0, 3) = <<"#", "Y", "Y">>

\* one pass of the inner loop: thisline[key] = line[colspec[0]:colspec[1]].strip()
thisline(line) ==
  [key \in KeySet |->
     strip(Slice(line, col_specification[key][1], col_specification[key][2]))]

\* the loop over response.split("\n")
data_json(text) ==
  LET kept == SelectSeq(split(text), LAMBDA line : ~IsSkipped(line))
  IN  [i \in DOMAIN kept |-> thisline(kept[i])]

(***************************************************************************)
(* get_json after the response was read. resp.text() returns a str, never  *)
(* None, so the test "response is not None" is true of every response and  *)
(* the first branch is taken for every status but 404; nothing inside the  *)
(* try block raises.                                                       *)
(***************************************************************************)
get_json(resp) ==
  IF resp.status # 404 THEN Return(data_json(resp.text))
  ELSE IF resp.status = 404 THEN Raise("ValueError", "Invalid station ID")
  ELSE Raise("ConnectionError", "Error getting data from NDBC.")

(********************************* Stations.list ***************************)

(***************************************************************************)
(* The registry document as xmltodict.parse sees it: text that is not XML  *)
(* ("garbage"), or a <stations> element with the given station elements.   *)
(* xmltodict maps no child to None, one child to a dict and several to a   *)
(* list, so only a registry of two or more stations can be iterated as     *)
(* the loop expects.                                                       *)
(***************************************************************************)
stations_list_of(doc) ==
  IF doc.kind = "garbage" THEN Raise("Exception", "Error converting Hayward data to JSON.")
  ELSE IF Len(doc.stations) = 0 THEN Raise("TypeError", "'NoneType' object is not iterable")
  ELSE IF Len(doc.stations) = 1 THEN Raise("TypeError", "string indices must be integers")
  ELSE Return([id \in {doc.stations[i]["@id"] : i \in DOMAIN doc.stations} |->
                 LET last == CHOOSE i \in DOMAIN doc.stations :
                               /\ doc.stations[i]["@id"] = id
                               /\ \A j \in DOMAIN doc.stations :
                                    doc.stations[j]["@id"] = id => j <= i
                 IN  doc.stations[last]])

(********************************* NDBC.get_data ***************************)

\* the literal "MM" the value tokens are compared with
SentinelMM == <<"M", "M">>

PyStr(s) == [str |-> s]

Failed(outs) == {i \in DOMAIN outs : outs[i].kind = "raise"}

\* the exception of the first statement that raises, in evaluation order
FirstRaise(outs) == outs[CHOOSE i \in Failed(outs) : \A j \in Failed(outs) : i <= j]

\* station[attr]
Subscript(station, attr) ==
  IF attr \in DOMAIN station THEN Return(station[attr]) ELSE Raise("KeyError", attr)

\* float(station[attr])
float_attr(station, attr) ==
  IF attr \in DOMAIN station THEN py_float(station[attr]) ELSE Raise("KeyError", attr)

\* int(station.get("@elev", 0))
elevation(station) ==
  IF "@elev" \in DOMAIN station THEN py_int(station["@elev"]) ELSE Return(0)

\* data[0], the row the units are read from
units_row(rows) == rows[1]

\* data[-1]: the last row taken for the latest one
value_row_last(rows) == rows[Len(rows)]

\* data[1], the row the values are read from
value_row(rows) == rows[2]

IsLeap(y) == y % 4 = 0 /\ (y % 100 # 0 \/ y % 400 = 0)

DaysInMonth(y, m) ==
  IF m = 2 THEN (IF IsLeap(y) THEN 29 ELSE 28)
  ELSE IF m \in {4, 6, 9, 11} THEN 30 ELSE 31

\* datetime(y, m, d, hh, mm, tzinfo=utc): ValueError outside the calendar
datetime(y, m, d, hh, mm) ==
  IF /\ 1 <= y /\ y <= 9999
     /\ 1 <= m /\ m <= 12
     /\ 1 <= d /\ d <= DaysInMonth(y, m)
     /\ 0 <= hh /\ hh <= 23
     /\ 0 <= mm /\ mm <= 59
    THEN Return([year |-> y, month |-> m, day |-> d, hour |-> hh, minute |-> mm])
    ELSE Raise("ValueError", "datetime component is out of range")

RECURSIVE DaysBeforeMonth(_, _)
DaysBeforeMonth(y, m) ==
  IF m = 1 THEN 0 ELSE DaysBeforeMonth(y, m - 1) + DaysInMonth(y, m - 1)

\* date.toordinal()
toordinal(t) ==
  LET y == t.year - 1
  IN  y * 365 + (y \div 4) - (y \div 100) + (y \div 400)
        + DaysBeforeMonth(t.year, t.month) + t.day

(***************************************************************************)
(* calendar.timegm(t.utctimetuple()), with 1970-01-01 at ordinal 719163:   *)
(* the result is days * 86400 + seconds, kept as its two parts.            *)
(***************************************************************************)
timegm(t) ==
  [days |-> toordinal(t) - 719163, seconds |-> (t.hour * 60 + t.minute) * 60]

Pad(n, width) == [i \in 1..width |-> DigitChar((n \div Pow10(width - i)) % 10)]

\* datetime.isoformat() of a UTC time with zero seconds
isoformat(t) ==
  Pad(t.year, 4) \o <<"-">> \o Pad(t.month, 2) \o <<"-">> \o Pad(t.day, 2) \o <<"T">>
    \o Pad(t.hour, 2) \o <<":">> \o Pad(t.minute, 2)
    \o <<":", "0", "0", "+", "0", "0", ":", "0", "0">>

\* if tok and tok != "MM": an empty token taken for a missing one
int_field_falsy(tok) ==
  IF tok # SentinelMM /\ tok # <<>>
    THEN (IF py_int(tok).kind = "return" THEN Return(PyInt(py_int(tok).value)) ELSE py_int(tok))
    ELSE Return(None)

\* if tok != "MM": value = int(tok)
int_field(tok) ==
  IF tok # SentinelMM
    THEN (IF py_int(tok).kind = "return" THEN Return(PyInt(py_int(tok).value)) ELSE py_int(tok))
    ELSE Return(None)

\* the conversion with its error swallowed: the value stays None
float_field_lenient(tok) ==
  IF tok # SentinelMM /\ py_float(tok).kind = "return" THEN py_float(tok) ELSE Return(None)

\* if tok != "MM": value = float(tok)
float_field(tok) == IF tok # SentinelMM THEN py_float(tok) ELSE Return(None)

\* if tok != "MM": value = int(round(float(tok)))
round_field(tok) ==
  IF tok # SentinelMM
    THEN (IF py_float(tok).kind = "raise" THEN py_float(tok)
          ELSE IF py_round(py_float(tok).value).kind = "raise"
            THEN py_round(py_float(tok).value)
          ELSE Return(PyInt(py_round(py_float(tok).value).value)))
    ELSE Return(None)

\* if tok != "MM": compass = self.compass_direction(float(tok))
compass_field(tok) ==
  IF tok # SentinelMM
    THEN (IF py_float(tok).kind = "raise" THEN py_float(tok)
          ELSE Return(PyStr(compass_direction(py_float(tok).value))))
    ELSE Return(None)

(***************************************************************************)
(* The body of get_data from "structured = {}" on: the location, the       *)
(* observation time, then wind, waves and weather, each statement in the   *)
(* order of the source; the first statement that raises ends the call.     *)
(***************************************************************************)
structure(station, rows) ==
  LET loc == << float_attr(station, "@lat"), float_attr(station, "@lon"),
                elevation(station), Subscript(station, "@name") >>
  IN
  IF Failed(loc) # {} THEN FirstRaise(loc)
  ELSE IF Len(rows) < 2 THEN Raise("IndexError", "list index out of range")
  ELSE
    LET u == units_row(rows)
        v == value_row(rows)
        comps == << py_int(v["YY"]), py_int(v["MM"]), py_int(v["DD"]),
                    py_int(v["hh"]), py_int(v["mm"]) >>
    IN
    IF Failed(comps) # {} THEN FirstRaise(comps)
    ELSE
      LET when == datetime(comps[1].value, comps[2].value, comps[3].value,
                           comps[4].value, comps[5].value)
          f == << int_field(v["WDIR"]), compass_field(v["WDIR"]), float_field(v["WSPD"]),
                  float_field(v["GST"]), float_field(v["WVHT"]), int_field(v["DPD"]),
                  round_field(v["APD"]), int_field(v["MWD"]), compass_field(v["MWD"]),
                  float_field(v["PRES"]), float_field(v["ATMP"]), float_field(v["WTMP"]),
                  float_field(v["DEWP"]), float_field(v["VIS"]), float_field(v["PTDY"]),
                  float_field(v["TIDE"]) >>
      IN
      IF when.kind = "raise" THEN when
      ELSE IF Failed(f) # {} THEN FirstRaise(f)
      ELSE Return(
        [ location |->
            [ latitude |-> loc[1].value, longitude |-> loc[2].value,
              elevation |-> loc[3].value, name |-> loc[4].value ],
          observation |->
            [ time |->
                [ utc_time |-> isoformat(when.value), unix_time |-> timegm(when.value) ],
              wind |->
                [ direction |-> f[1].value, direction_unit |-> u["WDIR"],
                  direction_compass |-> f[2].value,
                  speed |-> f[3].value, speed_unit |-> u["WSPD"],
                  gusts |-> f[4].value, gusts_unit |-> u["GST"] ],
              waves |->
                [ height |-> f[5].value, height_unit |-> u["WVHT"],
                  period |-> f[6].value, period_unit |-> u["DPD"],
                  average_period |-> f[7].value, average_period_unit |-> u["APD"],
                  direction |-> f[8].value, direction_unit |-> u["MWD"],
                  direction_compass |-> f[9].value ],
              weather |->
                [ pressure |-> f[10].value, pressure_unit |-> u["PRES"],
                  air_temperature |-> f[11].value, air_temperature_unit |-> u["ATMP"],
                  water_temperature |-> f[12].value, water_temperature_unit |-> u["WTMP"],
                  dewpoint |-> f[13].value, dewpoint_unit |-> u["DEWP"],
                  visibility |-> f[14].value, visibility_unit |-> u["VIS"],
                  pressure_tendency |-> f[15].value, pressure_tendency_unit |-> u["PTDY"],
                  tide |-> f[16].value, tide_unit |-> u["TIDE"] ] ] ])

(***************************** the two feeds' contents *********************)

\* the "#YY" line a realtime2 file starts with
HeaderLine ==
  <<
     "#", "Y", "Y", " ", " ", "M", "M", " ", "D", "D", " ", "h",
     "h", " ", "m", "m", " ", "W", "D", "I", "R", " ", "W", "S",
     "P", "D", " ", "G", "S", "T", " ", " ", "W", "V", "H", "T",
     " ", " ", " ", "D", "P", "D", " ", " ", " ", "A", "P", "D",
     " ", "M", "W", "D", " ", " ", " ", "P", "R", "E", "S", " ",
     " ", "A", "T", "M", "P", " ", " ", "W", "T", "M", "P", " ",
     " ", "D", "E", "W", "P", " ", " ", "V", "I", "S", " ", "P",
     "T", "D", "Y", " ", " ", "T", "I", "D", "E" >>

\* the units line that follows it
UnitsLine ==
  <<
     "#", "y", "r", " ", " ", "m", "o", " ", "d", "y", " ", "h",
     "r", " ", "m", "n", " ", "d", "e", "g", "T", " ", "m", "/",
     "s", " ", " ", "m", "/", "s", " ", " ", " ", " ", " ", "m",
     " ", " ", " ", "s", "e", "c", " ", " ", " ", "s", "e", "c",
     " ", "d", "e", "g", "T", " ", " ", " ", "h", "P", "a", " ",
     " ", "d", "e", "g", "C", " ", " ", "d", "e", "g", "C", " ",
     " ", "d", "e", "g", "C", " ", " ", "n", "m", "i", " ", " ",
     "h", "P", "a", " ", " ", " ", " ", "f", "t" >>

\* the tokens of a complete latest-observation line
LatestTokens ==
  ("YY" :> <<"2", "0", "2", "4">>) @@ ("MM" :> <<"0", "3">>) @@ ("DD" :> <<"1", "4">>) @@
  ("hh" :> <<"1", "2">>) @@ ("mm" :> <<"3", "0">>) @@ ("WDIR" :> <<"1", "8", "0">>) @@
  ("WSPD" :> <<"5", ".", "1">>) @@ ("GST" :> <<"6", ".", "2">>) @@
  ("WVHT" :> <<"1", ".", "2">>) @@ ("DPD" :> <<"8">>) @@ ("APD" :> <<"4", ".", "5">>) @@
  ("MWD" :> <<"3", "4", "9">>) @@ ("PRES" :> <<"1", "0", "1", "3", ".", "2">>) @@
  ("ATMP" :> <<"2", "0", ".", "1">>) @@ ("WTMP" :> <<"2", "1", ".", "3">>) @@
  ("DEWP" :> <<"1", "8", ".", "0">>) @@ ("VIS" :> <<"9", ".", "5">>) @@
  ("PTDY" :> <<"-", "0", ".", "4">>) @@ ("TIDE" :> <<"0", ".", "1", "3">>)

\* the tokens of an older observation line, most measurements missing
OlderTokens ==
  ("YY" :> <<"2", "0", "2", "4">>) @@ ("MM" :> <<"0", "3">>) @@ ("DD" :> <<"1", "4">>) @@
  ("hh" :> <<"1", "2">>) @@ ("mm" :> <<"2", "0">>) @@ ("WDIR" :> <<"9", "0">>) @@
  ("WSPD" :> <<"7", ".", "7">>) @@ ("GST" :> <<"M", "M">>) @@ ("WVHT" :> <<"M", "M">>) @@
  ("DPD" :> <<"M", "M">>) @@ ("APD" :> <<"M", "M">>) @@ ("MWD" :> <<"M", "M">>) @@
  ("PRES" :> <<"M", "M">>) @@ ("ATMP" :> <<"M", "M">>) @@ ("WTMP" :> <<"M", "M">>) @@
  ("DEWP" :> <<"M", "M">>) @@ ("VIS" :> <<"M", "M">>) @@ ("PTDY" :> <<"M", "M">>) @@
  ("TIDE" :> <<"M", "M">>)

\* a <station> element without elev
Station41013 ==
  ("@id" :> "41013") @@
  ("@lat" :> <<"3", "2", ".", "7", "6", "6">>) @@
  ("@lon" :> <<"-", "7", "9", ".", "4", "6", "2">>) @@
  ("@name" :> "Charleston Bump")

\* a <station> element with a whole-number elev
Station44025 ==
  ("@id" :> "44025") @@
  ("@lat" :> <<"4", "0", ".", "2", "5", "8">>) @@
  ("@lon" :> <<"-", "7", "3", ".", "1", "7", "5">>) @@
  ("@elev" :> <<"3">>) @@
  ("@name" :> "Long Island")

\* a <station> element with a fractional elev
Station46042 ==
  ("@id" :> "46042") @@
  ("@lat" :> <<"3", "6", ".", "7", "8", "5">>) @@
  ("@lon" :> <<"-", "1", "2", "2", ".", "3", "9", "6">>) @@
  ("@elev" :> <<"2", ".", "7">>) @@
  ("@name" :> "Monterey")

\* a <station> element without lat
Station51001 ==
  ("@id" :> "51001") @@
  ("@lon" :> <<"-", "1", "6", "2", ".", "0", "0", "0">>) @@
  ("@elev" :> <<"0">>) @@
  ("@name" :> "Northwestern Hawaii")

Width(key) == col_specification[key][2] - col_specification[key][1]

\* a feed line holding the given tokens, each right-aligned in its column
FeedLine(tokens) ==
  [p \in 1..93 |->
     LET at == {k \in KeySet : col_specification[k][1] < p /\ p <= col_specification[k][2]}
         k  == CHOOSE k \in at : TRUE
         i  == p - col_specification[k][2] + Len(tokens[k])
     IN  IF at = {} \/ i < 1 THEN " " ELSE tokens[k][i]]

\* tokens a damaged or incomplete feed line holds in place of a number
DeviantTokens ==
  { SentinelMM, <<>>, <<"x">>, <<"9", "9">>, <<"1", "2">>, <<"2", ".", "5">>,
    <<"n", "a", "n">>, <<"i", "n", "f">> }

\* the latest-observation lines: complete, all measurements missing, or one token changed
ValueLines ==
  {FeedLine(LatestTokens)}
    \cup {FeedLine([k \in KeySet |->
                      IF k \in {"YY", "MM", "DD", "hh", "mm"} THEN LatestTokens[k]
                      ELSE SentinelMM])}
    \cup {FeedLine([LatestTokens EXCEPT ![k] = t]) :
            <<k, t>> \in {kt \in KeySet \X DeviantTokens : Len(kt[2]) <= Width(kt[1])}}

\* the lines in the units row's place
UnitsLines == {UnitsLine, FeedLine([k \in KeySet |-> SentinelMM]), FeedLine(OlderTokens)}

RECURSIVE Join(_)
Join(lines) ==
  IF Len(lines) = 0 THEN <<>>
  ELSE IF Len(lines) = 1 THEN lines[1]
  ELSE lines[1] \o <<"\n">> \o Join(Tail(lines))

NotFoundText == <<"N", "o", "t", " ", "F", "o", "u", "n", "d">>

\* response bodies of the observation feed
Texts ==
  {Join(<<HeaderLine, u, v>>) : u \in UnitsLines, v \in ValueLines}
    \cup {Join(<<HeaderLine, UnitsLine, v, FeedLine(OlderTokens)>>) : v \in ValueLines}
    \cup { <<>>,
           HeaderLine,
           Join(<<HeaderLine, UnitsLine>>),
           Join(<<UnitsLine, FeedLine(LatestTokens)>>),
           Join(<<HeaderLine, UnitsLine, FeedLine(LatestTokens), <<>>>>),
           Join(<<HeaderLine, UnitsLine, SubSeq(FeedLine(LatestTokens), 1, 40)>>) }

\* bodies sent with an error status
ErrorTexts ==
  {Join(<<HeaderLine, UnitsLine, v>>) : v \in ValueLines} \cup {<<>>, NotFoundText}

ObservationResponses ==
  [status : {200}, text : Texts]
    \cup [status : {500}, text : ErrorTexts]
    \cup [status : {404}, text : {NotFoundText, Join(<<HeaderLine, UnitsLine>>)}]

RegistryDocuments ==
  { [kind |-> "garbage"],
    [kind |-> "xml", stations |-> <<>>],
    [kind |-> "xml", stations |-> <<Station41013>>],
    [kind |-> "xml",
     stations |-> <<Station41013, Station44025, Station46042, Station51001>>] }

StationIds == {"41013", "44025", "46042", "51001", "ZZZZ9"}

\* every text over a small alphabet, for get_json alone
ShortTexts == UNION {[1..n -> {"#", "Y", " ", "\n"}] : n \in 0..MaxTextLen}

\* complete feeds, given to get_json alone with every status
LongTexts ==
  { Join(<<HeaderLine, UnitsLine, FeedLine(LatestTokens)>>),
    Join(<<HeaderLine, UnitsLine, FeedLine(OlderTokens), <<>>>>),
    Join(<<UnitsLine, SubSeq(FeedLine(LatestTokens), 1, 40), HeaderLine>>),
    Join(<<HeaderLine \o <<"\r">>, UnitsLine \o <<"\r">>,
           SubSeq(FeedLine(LatestTokens), 1, 20) \o <<"\t", "\r">>>>) }

JsonResponses ==
  [status : {200}, text : ShortTexts]
    \cup [status : {200, 404, 500}, text : LongTexts \cup {<<>>, NotFoundText}]

(********************************** the client *****************************)

\* NDBC.__init__: the station id, and the given session or a new one
Init ==
  /\ station_id \in StationIds
  /\ session \in {[owner |-> "core", closed |-> FALSE], [owner |-> "caller", closed |-> FALSE]}
  /\ pc = "idle"
  /\ calls = 0
  /\ registry_fetches = 0
  /\ stations_session = "none"
  /\ stations_list = None
  /\ outstanding = {}
  /\ issued = <<>>
  /\ response = None
  /\ data = None
  /\ result = Pending
  /\ degrees = 0
  /\ compass = "none"

\* get_data sending both GETs at once, before the registry is read
GetDataEager ==
  /\ pc = "idle"
  /\ calls < MaxCalls
  /\ calls' = calls + 1
  /\ stations_session' = "open"
  /\ outstanding' = {"registry", "observation"}
  /\ issued' = <<"registry", "observation">>
  /\ registry_fetches' = registry_fetches + 1
  /\ stations_list' = None
  /\ response' = None
  /\ data' = None
  /\ result' = Pending
  /\ pc' = "registry"
  /\ UNCHANGED <<station_id, session, degrees, compass>>

\* get_data up to its first await: Stations() opens a session, list() sends the GET
GetData ==
  /\ pc = "idle"
  /\ calls < MaxCalls
  /\ calls' = calls + 1
  /\ stations_session' = "open"
  /\ outstanding' = {"registry"}
  /\ issued' = <<"registry">>
  /\ registry_fetches' = registry_fetches + 1
  /\ stations_list' = None
  /\ response' = None
  /\ data' = None
  /\ result' = Pending
  /\ pc' = "registry"
  /\ UNCHANGED <<station_id, session, degrees, compass>>

\* the registry GET raises (no connection, timeout): the error leaves get_data
RegistryFetchFails ==
  /\ pc = "registry"
  /\ outstanding' = {}
  /\ result' = Raise("ClientError", "registry")
  /\ pc' = "done"
  /\ UNCHANGED <<station_id, session, calls, registry_fetches, stations_session,
                 stations_list, issued, response, data, degrees, compass>>

\* Stations.list from the response on: parse the document, build the dict
RegistryResponse(doc) ==
  /\ pc = "registry"
  /\ outstanding' = {}
  /\ IF stations_list_of(doc).kind = "raise"
       THEN /\ result' = stations_list_of(doc)
            /\ pc' = "done"
            /\ UNCHANGED stations_list
       ELSE /\ stations_list' = stations_list_of(doc).value
            /\ pc' = "parsed"
            /\ UNCHANGED result
  /\ UNCHANGED <<station_id, session, calls, registry_fetches, stations_session,
                 issued, response, data, degrees, compass>>

\* "if not stations_list[self._station_id]": a missing key raises KeyError
lookup(list, id) ==
  IF id \notin DOMAIN list THEN Raise("KeyError", id)
  ELSE IF DOMAIN list[id] = {} THEN Raise("ValueError", "Station ID is invalid.")
  ELSE Return(list[id])

\* get_data from "await stations.close()" to get_json's GET
LookupStation ==
  /\ pc = "parsed"
  /\ stations_session' = "closed"
  /\ IF lookup(stations_list, station_id).kind = "raise"
       THEN /\ result' = lookup(stations_list, station_id)
            /\ pc' = "done"
            /\ UNCHANGED <<outstanding, issued>>
       ELSE IF session.closed
         THEN /\ result' = Raise("RuntimeError", "Session is closed")
              /\ pc' = "done"
              /\ UNCHANGED <<outstanding, issued>>
         ELSE /\ outstanding' = {"observation"}
              /\ issued' = Append(issued, "observation")
              /\ pc' = "observation"
              /\ UNCHANGED result
  /\ UNCHANGED <<station_id, session, calls, registry_fetches, stations_list,
                 response, data, degrees, compass>>

\* the observation GET raises: the error leaves get_json and get_data
ObservationFetchFails ==
  /\ pc = "observation"
  /\ outstanding' = {}
  /\ result' = Raise("ClientError", "observation")
  /\ pc' = "done"
  /\ UNCHANGED <<station_id, session, calls, registry_fetches, stations_session,
                 stations_list, issued, response, data, degrees, compass>>

\* get_json from the response on, then the rest of get_data
ObservationResponse(resp) ==
  /\ pc = "observation"
  /\ outstanding' = {}
  /\ response' = resp
  /\ LET rows == get_json(resp)
     IN  IF rows.kind = "raise"
           THEN /\ data' = None
                /\ result' = rows
           ELSE /\ data' = [rows |-> rows.value]
                /\ result' = structure(stations_list[station_id], rows.value)
  /\ pc' = "done"
  /\ UNCHANGED <<station_id, session, calls, registry_fetches, stations_session,
                 stations_list, issued, degrees, compass>>

\* NDBC.close(), called by the owner of the client between calls
Close ==
  /\ pc = "idle"
  /\ ~session.closed
  /\ session' = [session EXCEPT !.closed = TRUE]
  /\ UNCHANGED <<station_id, pc, calls, registry_fetches, stations_session, stations_list,
                 outstanding, issued, response, data, result, degrees, compass>>

\* the caller takes the result; the call's locals are gone
CallReturns ==
  /\ pc = "done"
  /\ pc' = "idle"
  /\ stations_session' = "none"
  /\ stations_list' = None
  /\ issued' = <<>>
  /\ response' = None
  /\ data' = None
  /\ result' = Pending
  /\ UNCHANGED <<station_id, session, calls, registry_fetches, outstanding, degrees, compass>>

Next ==
  \/ GetData
  \/ RegistryFetchFails
  \/ \E doc \in RegistryDocuments : RegistryResponse(doc)
  \/ LookupStation
  \/ ObservationFetchFails
  \/ \E resp \in ObservationResponses : ObservationResponse(resp)
  \/ Close
  \/ CallReturns

Spec == Init /\ [][Next]_vars

(************************* get_json on its own *****************************)

InitJson ==
  /\ station_id = "41013"
  /\ session = [owner |-> "core", closed |-> FALSE]
  /\ pc = "json_call"
  /\ calls = 0
  /\ registry_fetches = 0
  /\ stations_session = "none"
  /\ stations_list = None
  /\ outstanding = {}
  /\ issued = <<>>
  /\ response \in JsonResponses
  /\ data = None
  /\ result = Pending
  /\ degrees = 0
  /\ compass = "none"

GetJson ==
  /\ pc = "json_call"
  /\ result' = get_json(response)
  /\ data' = IF get_json(response).kind = "return"
               THEN [rows |-> get_json(response).value] ELSE None
  /\ pc' = "json_done"
  /\ UNCHANGED <<station_id, session, calls, registry_fetches, stations_session,
                 stations_list, outstanding, issued, response, degrees, compass>>

NextJson == GetJson

SpecJson == InitJson /\ [][NextJson]_vars

(********************** compass_direction on its own ***********************)

InitCompass ==
  /\ station_id = "41013"
  /\ session = [owner |-> "core", closed |-> FALSE]
  /\ pc = "compass_call"
  /\ calls = 0
  /\ registry_fetches = 0
  /\ stations_session = "none"
  /\ stations_list = None
  /\ outstanding = {}
  /\ issued = <<>>
  /\ response = None
  /\ data = None
  /\ result = Pending
  /\ degrees \in 0..MaxDegrees
  /\ compass = "none"

CompassDirection ==
  /\ pc = "compass_call"
  /\ compass' = compass_direction([num |-> degrees, den |-> 100])
  /\ pc' = "compass_done"
  /\ UNCHANGED <<station_id, session, calls, registry_fetches, stations_session,
                 stations_list, outstanding, issued, response, data, result, degrees>>

NextCompass == CompassDirection

SpecCompass == InitCompass /\ [][NextCompass]_vars

(********************************* properties ******************************)

MeasuredKeys ==
  { "WDIR", "WSPD", "GST", "WVHT", "DPD", "APD", "MWD", "PRES", "ATMP", "WTMP",
    "DEWP", "VIS", "PTDY", "TIDE" }

TimeKeys == {"YY", "MM", "DD", "hh", "mm"}

\* where the returned record holds the value of a measured field
ValueSlot(rec, k) ==
  CASE k = "WDIR" -> rec.observation.wind.direction
    [] k = "WSPD" -> rec.observation.wind.speed
    [] k = "GST"  -> rec.observation.wind.gusts
    [] k = "WVHT" -> rec.observation.waves.height
    [] k = "DPD"  -> rec.observation.waves.period
    [] k = "APD"  -> rec.observation.waves.average_period
    [] k = "MWD"  -> rec.observation.waves.direction
    [] k = "PRES" -> rec.observation.weather.pressure
    [] k = "ATMP" -> rec.observation.weather.air_temperature
    [] k = "WTMP" -> rec.observation.weather.water_temperature
    [] k = "DEWP" -> rec.observation.weather.dewpoint
    [] k = "VIS"  -> rec.observation.weather.visibility
    [] k = "PTDY" -> rec.observation.weather.pressure_tendency
    [] k = "TIDE" -> rec.observation.weather.tide

\* where the returned record holds the unit of a measured field
UnitSlot(rec, k) ==
  CASE k = "WDIR" -> rec.observation.wind.direction_unit
    [] k = "WSPD" -> rec.observation.wind.speed_unit
    [] k = "GST"  -> rec.observation.wind.gusts_unit
    [] k = "WVHT" -> rec.observation.waves.height_unit
    [] k = "DPD"  -> rec.observation.waves.period_unit
    [] k = "APD"  -> rec.observation.waves.average_period_unit
    [] k = "MWD"  -> rec.observation.waves.direction_unit
    [] k = "PRES" -> rec.observation.weather.pressure_unit
    [] k = "ATMP" -> rec.observation.weather.air_temperature_unit
    [] k = "WTMP" -> rec.observation.weather.water_temperature_unit
    [] k = "DEWP" -> rec.observation.weather.dewpoint_unit
    [] k = "VIS"  -> rec.observation.weather.visibility_unit
    [] k = "PTDY" -> rec.observation.weather.pressure_tendency_unit
    [] k = "TIDE" -> rec.observation.weather.tide_unit

\* where the returned record holds the compass label of a bearing
CompassSlot(rec, k) ==
  CASE k = "WDIR" -> rec.observation.wind.direction_compass
    [] k = "MWD"  -> rec.observation.waves.direction_compass

\* a get_data call has returned a record
Returned == pc = "done" /\ result.kind = "return"

(***************************************************************************)
(* C1: in the record get_data returns, the value of every measured field   *)
(* is None exactly when the token of that field in the value row (the      *)
(* second row of get_json) is "MM", whatever the field's numeric type, and *)
(* the compass labels of WDIR and MWD are None exactly then too.           *)
(***************************************************************************)
C1_NullIffSentinel ==
  Returned =>
    /\ \A k \in MeasuredKeys :
         (ValueSlot(result.value, k) = None) <=> (data.rows[2][k] = SentinelMM)
    /\ \A k \in {"WDIR", "MWD"} :
         (CompassSlot(result.value, k) = None) <=> (data.rows[2][k] = SentinelMM)

\* a record returned with a missing int field beside present int and float fields
C1_Witness ==
  /\ Returned
  /\ data.rows[2]["WDIR"] = SentinelMM
  /\ result.value.observation.wind.direction = None
  /\ result.value.observation.wind.direction_compass = None
  /\ data.rows[2]["MWD"] # SentinelMM
  /\ result.value.observation.waves.direction_compass # None
  /\ result.value.observation.wind.speed # None

SixteenLabels ==
  << "NNE", "NE", "ENE", "E", "ESE", "SE", "SSE", "S", "SSW", "SW", "WSW", "W",
     "WNW", "NW", "NNW" >>

(***************************************************************************)
(* C2: for a bearing of 0 to 360 degrees (degrees counts hundredths), the  *)
(* k-th of the fifteen labels NNE..NNW is returned exactly when            *)
(* 11.25 + 22.5k < d <= 33.75 + 22.5k, and N exactly when d <= 11.25 or    *)
(* d > 348.75: buckets open below and closed above.                        *)
(***************************************************************************)
C2_CompassBuckets ==
  (pc = "compass_done" /\ 0 <= degrees /\ degrees <= 36000) =>
    /\ \A k \in 0..14 :
         (compass = SixteenLabels[k + 1])
           <=> (1125 + 2250 * k < degrees /\ degrees <= 3375 + 2250 * k)
    /\ (compass = "N") <=> (degrees <= 1125 \/ degrees > 34875)

\* a bearing on the boundary shared by NNE and NE goes to NNE, whose upper bound it is
C2_Witness == pc = "compass_done" /\ degrees = 3375 /\ compass = "NNE"

(***************************************************************************)
(* C3 as stated: compass_direction gives N for 11.25, NNE for 11.26, N for *)
(* 348.75, N for 0.0 and N for 360.0.                                      *)
(***************************************************************************)
C3_AsStated ==
  pc = "compass_done" =>
    /\ degrees = 1125 => compass = "N"
    /\ degrees = 1126 => compass = "NNE"
    /\ degrees = 34875 => compass = "N"
    /\ degrees = 0 => compass = "N"
    /\ degrees = 36000 => compass = "N"

(***************************************************************************)
(* C3 amended: compass_direction gives N for 11.25, NNE for 11.26, NNW for *)
(* 348.75 (the upper bound of the NNW bucket), N for 0.0 and N for 360.0.  *)
(***************************************************************************)
C3_BoundaryPoints ==
  pc = "compass_done" =>
    /\ degrees = 1125 => compass = "N"
    /\ degrees = 1126 => compass = "NNE"
    /\ degrees = 34875 => compass = "NNW"
    /\ degrees = 0 => compass = "N"
    /\ degrees = 36000 => compass = "N"

\* the bearing 348.75 has been resolved
C3_Witness == pc = "compass_done" /\ degrees = 34875 /\ compass = "NNW"

\* the positions of the response text where a line starts (one past the end: an empty last line)
LineStarts(t) == {1} \cup {i + 1 : i \in {j \in DOMAIN t : t[j] = "\n"}}

\* the position of the last character of the line starting at s
LineEnd(t, s) ==
  LET after == {i \in s..Len(t) : t[i] = "\n"}
  IN  IF after = {} THEN Len(t) ELSE (CHOOSE i \in after : \A j \in after : i <= j) - 1

\* the line starting at s begins with the three characters #YY
StartsWithMarker(t, s) ==
  LineEnd(t, s) >= s + 2 /\ t[s] = "#" /\ t[s + 1] = "Y" /\ t[s + 2] = "Y"

\* the characters of t from the first to the last non-blank position within a..b
Trimmed(t, a, b) ==
  LET solid == {i \in a..b : t[i] \notin Whitespace}
      lo == CHOOSE i \in solid : \A j \in solid : i <= j
      hi == CHOOSE i \in solid : \A j \in solid : j <= i
  IN  IF solid = {} THEN <<>> ELSE [i \in 1..(hi - lo + 1) |-> t[lo + i - 1]]

\* the start of the n-th line that does not begin with #YY
KeptStart(t, n) ==
  CHOOSE s \in LineStarts(t) :
    /\ ~StartsWithMarker(t, s)
    /\ Cardinality({r \in LineStarts(t) : r <= s /\ ~StartsWithMarker(t, r)}) = n

(***************************************************************************)
(* C4: the rows get_json returns are one per line of the response text, in *)
(* line order, leaving out exactly the lines whose first three characters  *)
(* are #YY; each row has the 19 keys, each holding the characters of the   *)
(* line at its column range (fewer or none on a short line) with leading   *)
(* and trailing whitespace removed.                                        *)
(***************************************************************************)
C4_RowsPerLine ==
  (pc = "json_done" /\ result.kind = "return") =>
    LET t == response.text
        rows == result.value
    IN  /\ Len(rows) = Cardinality({s \in LineStarts(t) : ~StartsWithMarker(t, s)})
        /\ \A n \in DOMAIN rows :
             /\ DOMAIN rows[n] = KeySet
             /\ \A k \in KeySet :
                  LET s == KeptStart(t, n)
                      a == s + col_specification[k][1]
                      b == s + col_specification[k][2] - 1
                      e == LineEnd(t, s)
                  IN  rows[n][k] = Trimmed(t, a, IF b < e THEN b ELSE e)

\* "#YY" is dropped; the empty line and the comment line "#" after it are rows
C4_Witness ==
  /\ pc = "json_done"
  /\ result.kind = "return"
  /\ response.text = <<"#", "Y", "Y", "\n", "\n", "#">>
  /\ Len(result.value) = 2
  /\ result.value[1]["YY"] = <<>>
  /\ result.value[2]["YY"] = <<"#">>

(***************************************************************************)
(* C5: a get_data call whose station id is not a key of the fetched        *)
(* registry fails with ValueError ("Station ID ... is invalid.") and with  *)
(* no other error.                                                         *)
(***************************************************************************)
C5_UnknownStationIsValueError ==
  (pc = "done" /\ stations_list # None /\ station_id \notin DOMAIN stations_list) =>
    (result.kind = "raise" /\ result.exc = "ValueError")

(***************************************************************************)
(* C6: get_json fails with ValueError for status 404, with ConnectionError *)
(* for every other status that is not a success, and returns rows only     *)
(* for a success status.                                                   *)
(***************************************************************************)
C6_StatusDecidesOutcome ==
  pc = "json_done" =>
    /\ response.status = 404 => (result.kind = "raise" /\ result.exc = "ValueError")
    /\ response.status \notin {200, 404} =>
         (result.kind = "raise" /\ result.exc = "ConnectionError")
    /\ result.kind = "return" => response.status = 200

\* the value row is absent, or one of its tokens does not convert
Malformed(rows) ==
  \/ Len(rows) < 2
  \/ \E k \in TimeKeys : py_int(rows[2][k]).kind = "raise"
  \/ \E k \in MeasuredKeys :
       /\ rows[2][k] # SentinelMM
       /\ IF k \in {"WDIR", "DPD", "MWD"} THEN py_int(rows[2][k]).kind = "raise"
          ELSE IF k = "APD"
            THEN \/ py_float(rows[2][k]).kind = "raise"
                 \/ py_round(py_float(rows[2][k]).value).kind = "raise"
          ELSE py_float(rows[2][k]).kind = "raise"

(***************************************************************************)
(* C7 as stated: when the value row is absent or one of its tokens fails   *)
(* its conversion, get_data fails with a malformed-observation error, not  *)
(* with the raw error of the conversion, and returns no record.            *)
(***************************************************************************)
C7_AsStated ==
  (pc = "done" /\ data # None /\ Malformed(data.rows)) =>
    (result.kind = "raise" /\ result.exc = "MalformedObservation")

(***************************************************************************)
(* C7 amended: when the value row is absent or one of its tokens fails its *)
(* conversion, get_data fails with the raw error of the first statement    *)
(* that failed (ValueError, OverflowError or IndexError of a conversion or *)
(* of the row access, KeyError of a station attribute read before them)    *)
(* and returns no record.                                                  *)
(***************************************************************************)
C7_MalformedRaisesRawError ==
  (pc = "done" /\ data # None /\ Malformed(data.rows)) =>
    /\ result.kind = "raise"
    /\ result.exc \in {"ValueError", "OverflowError", "IndexError", "KeyError"}

\* a value row whose wind speed is not a number ended the call with ValueError
C7_Witness ==
  /\ pc = "done"
  /\ data # None
  /\ Len(data.rows) >= 2
  /\ data.rows[2]["WSPD"] = <<"x">>
  /\ \A k \in TimeKeys : py_int(data.rows[2][k]).kind = "return"
  /\ result.kind = "raise"
  /\ result.exc = "ValueError"

(***************************************************************************)
(* C8: when a get_data call has ended, by a return or by any error, the    *)
(* session of its Stations object is closed, and so is the client's        *)
(* session if the client created it.                                       *)
(***************************************************************************)
C8_OwnedSessionsClosed ==
  pc = "done" =>
    /\ stations_session = "closed"
    /\ session.owner = "core" => session.closed

(***************************************************************************)
(* C9: a get_data call issues at most two requests, the registry request   *)
(* first, never two in flight at once; the observation request is issued   *)
(* only once the registry response is read and parsed and holds the        *)
(* station id; and every call issues a registry request of its own.        *)
(***************************************************************************)
C9_SequentialRequests ==
  /\ Cardinality(outstanding) <= 1
  /\ issued \in {<<>>, <<"registry">>, <<"registry", "observation">>}
  /\ Len(issued) = 2 =>
       /\ "registry" \notin outstanding
       /\ stations_list # None
       /\ station_id \in DOMAIN stations_list
  /\ registry_fetches = calls

\* the second call of a client waits for its observation request, its own registry read
C9_Witness ==
  /\ calls = 2
  /\ registry_fetches = 2
  /\ pc = "observation"
  /\ outstanding = {"observation"}

\* the value a measured field's token stands for
ValueOfToken(k, tok) ==
  LET i == py_int(tok)
      f == py_float(tok)
  IN  IF tok = SentinelMM THEN None
      ELSE IF k \in {"WDIR", "DPD", "MWD"}
        THEN (IF i.kind = "return" THEN PyInt(i.value) ELSE [unconvertible |-> tok])
      ELSE IF f.kind = "raise" THEN [unconvertible |-> tok]
      ELSE IF k # "APD" THEN f.value
      ELSE IF py_round(f.value).kind = "return" THEN PyInt(py_round(f.value).value)
      ELSE [unconvertible |-> tok]

(***************************************************************************)
(* C10: in the record get_data returns, the unit of every measured field   *)
(* is that field's token in the first row of get_json, copied as it is,    *)
(* and the value is the one the second row's token stands for; no later    *)
(* row has any effect.                                                     *)
(***************************************************************************)
C10_UnitsFromFirstRow ==
  Returned =>
    \A k \in MeasuredKeys :
      /\ UnitSlot(result.value, k) = data.rows[1][k]
      /\ ValueSlot(result.value, k) = ValueOfToken(k, data.rows[2][k])

\* a record returned from a feed with an older third row: gusts missing, their unit kept
C10_Witness ==
  /\ Returned
  /\ Len(data.rows) = 3
  /\ data.rows[3] # data.rows[2]
  /\ data.rows[2]["GST"] = SentinelMM
  /\ result.value.observation.wind.gusts = None
  /\ result.value.observation.wind.gusts_unit = <<"m", "/", "s">>
  /\ result.value.observation.wind.speed = [num |-> 51, den |-> 10]

====
